---- MODULE Spec2Model ----
(***************************************************************************)
(* State-machine model of the trivia-board backend services:               *)
(*   game.service.ts  (game lifecycle, response validation and scoring)    *)
(*   team service     (src/unnamed/part_001: roster management)            *)
(*   clue service     (src/unnamed/part_000: clue selection state machine) *)
(*   round.service.ts (board authoring)                                    *)
(* The relational store is the state; every exported service function is   *)
(* one action that runs the whole handler.  Each action records the call   *)
(* and its outcome (returned / thrown message) in the history variable     *)
(* `last`, so that "succeeds", "fails with ..." are observable.            *)
(* selectClue, resetClueState and createTeam read the store and write it   *)
(* in separate store calls with nothing that ties the two together; for    *)
(* overlapping requests each of them is also given as a pair of actions,   *)
(* <handler>Read and <handler>Complete, with what the handler has read     *)
(* kept in `calls` in between.                                             *)
(*                                                                         *)
(* Optional values (T | null | undefined) are encoded as sequences of      *)
(* length at most one: <<>> is null/undefined, <<v>> is the value v.       *)
(* Strings that the code trims are sequences of one-character strings.     *)
(* Timestamps (createdAt, joinedAt, validatedAt) are not modelled.  A clue *)
(* row carries the round it belongs to (clue.category.round); Category     *)
(* rows and the text of questions and answers are not modelled.            *)
(* deleteGame is not modelled: what it removes with the game is decided by *)
(* the store's schema.                                                     *)
(***************************************************************************)
EXTENDS Integers, Sequences, FiniteSets, Bags, TLC

\* ------------------------------------------------------------------ bounds
MaxGames == 2
MaxTeams == 3
MaxRounds == 3
MaxResponses == 1
MaxScore == 1
MaxCalls == 2

\* createGame's default team limit
DefaultTeamLimit == 4

\* ---------------------------------------------------------------- universe
Null == <<>>
Some(v) == <<v>>

\* The User table is managed outside these services and never written here.
\* "h" is a HOST, "o" an OPERATOR, "p" and "q" are PLAYERs.
userRole == [h |-> "HOST", o |-> "OPERATOR", p |-> "PLAYER", q |-> "PLAYER"]
Users == DOMAIN userRole
\* an id that names no user
NoUser == "x"

GameIds == 1..MaxGames
TeamIds == 1..MaxTeams
RoundIds == 1..MaxRounds
ResponseIds == 1..MaxResponses

VARIABLES
    games,       \* Game rows:      id -> [title, hostId, teamLimit, status]
    teams,       \* Team rows:      id -> [gameId, name, order, score]
    members,     \* TeamMember rows: bag of [teamId, userId, isCaptain] (row ids are not used)
    rounds,      \* Round rows:     id -> [gameId, order]
    clues,       \* Clue rows:      id -> [roundId, value] (through its category)
    clueStates,  \* ClueState rows: id -> [clueId, gameId, state, pickedByTeamId, resolvedById]
    responses,   \* TeamResponse rows: id -> [teamId, clueId, submittedById, isCorrect, awardedValue, validatedById]
    nextId,      \* per table, the number of rows ever created (ids are never reused)
    calls,       \* handler invocations that run in steps: what each has read, and where it is
    claimed,     \* history: clues claimed by a successful selectClue and not reset since
    adjusted,    \* history: per team, the sum of the deltas of its successful adjustScore calls
    last         \* history: the last call and its outcome

db == <<games, teams, members, rounds, clues, clueStates, responses, nextId>>
vars == <<games, teams, members, rounds, clues, clueStates, responses, nextId, calls, claimed,
          adjusted, last>>

\* ----------------------------------------------------------------- helpers
RECURSIVE TrimLeft(_)
TrimLeft(s) == IF s # <<>> /\ Head(s) = " " THEN TrimLeft(Tail(s)) ELSE s

RECURSIVE TrimRight(_)
TrimRight(s) ==
    IF s # <<>> /\ s[Len(s)] = " " THEN TrimRight(SubSeq(s, 1, Len(s) - 1)) ELSE s

\* String.prototype.trim
Trim(s) == TrimRight(TrimLeft(s))

\* a ?? b
Coalesce(a, b) == IF a # Null THEN a[1] ELSE b

Min(S) == CHOOSE x \in S : \A y \in S : x <= y

\* prisma.<table>.create: a fresh id
Insert(table, id, row) == [i \in DOMAIN table \cup {id} |-> IF i = id THEN row ELSE table[i]]

\* prisma.<table>.delete
Delete(table, ids) == [i \in DOMAIN table \ ids |-> table[i]]

Returned(call) == call @@ [ok |-> TRUE, err |-> ""]
Thrown(call, msg) == call @@ [ok |-> FALSE, err |-> msg]

\* a handler that throws before writing anything
Fail(call, msg) ==
    /\ last' = Thrown(call, msg)
    /\ UNCHANGED <<db, claimed, calls, adjusted>>

\* the value a handler reads again just before it writes
rereadValue(read, current) == current

\* A handler acts on the value it read into a local constant (const [team,
\* state] = await ...), whatever the store holds by the time it writes.
heldValue(read, current) == read

\* game.teams (include: { teams: true })
TeamsOf(g) == {t \in DOMAIN teams : teams[t].gameId = g}

\* teams of game g sorted by order ascending (findMany orderBy order asc);
\* rows with equal order come in id order
RECURSIVE SortByOrder(_, _)
SortByOrder(table, ids) ==
    IF ids = {} THEN <<>>
    ELSE LET lo == Min({table[i].order : i \in ids})
             first == Min({i \in ids : table[i].order = lo})
         IN <<first>> \o SortByOrder(table, ids \ {first})

Init ==
    /\ games = <<>>
    /\ teams = <<>>
    /\ members = EmptyBag
    /\ rounds = <<>>
    /\ clues = <<>>
    /\ clueStates = <<>>
    /\ responses = <<>>
    /\ nextId = [game |-> 0, team |-> 0, round |-> 0, clue |-> 0, clueState |-> 0,
                 response |-> 0]
    /\ calls = <<>>
    /\ claimed = {}
    /\ adjusted = [t \in TeamIds |-> 0]
    /\ last = [op |-> "init", ok |-> TRUE, err |-> ""]

\* ------------------------------------------------- game.service.ts: games
\* a host check that lets every actor through
ensureHostAccessAnyone(game, actorId) == TRUE

\* if (game.hostId !== actorId) throw
ensureHostAccess(game, actorId) == game.hostId = actorId

createGame(hostId, title, teamLimit) ==
    LET call == [op |-> "createGame", hostId |-> hostId, title |-> title,
                 teamLimit |-> teamLimit]
        id == nextId.game + 1
    IN  IF Trim(title) = <<>>
        THEN Fail(call, "Game title is required")
        ELSE    /\ id \in GameIds
                /\ games' = Insert(games, id,
                        [title |-> Trim(title), hostId |-> hostId,
                         teamLimit |-> Coalesce(teamLimit, DefaultTeamLimit),
                         status |-> "LOBBY"])
                /\ nextId' = [nextId EXCEPT !.game = id]
                /\ last' = Returned(call @@ [gameId |-> id])
                /\ UNCHANGED <<teams, members, rounds, clues, clueStates, responses,
                               claimed, calls, adjusted>>

updateGameSettings(gameId, title, teamLimit, actorId) ==
    LET call == [op |-> "updateGameSettings", gameId |-> gameId, title |-> title,
                 teamLimit |-> teamLimit, actorId |-> actorId]
    IN  IF gameId \notin DOMAIN games THEN Fail(call, "Game not found")
        ELSE LET game == games[gameId]
                 nextTitle == IF title # Null THEN Trim(title[1]) ELSE game.title
                 nextTeamLimit == Coalesce(teamLimit, game.teamLimit)
             IN  IF ~ensureHostAccess(game, actorId)
                 THEN Fail(call, "Only the host can perform this action")
                 ELSE IF game.status # "LOBBY"
                 THEN Fail(call, "Game settings are locked once the game starts")
                 ELSE IF nextTeamLimit < 1
                 THEN Fail(call, "Team limit must be at least 1")
                 ELSE /\ games' = [games EXCEPT ![gameId].title = nextTitle,
                                                ![gameId].teamLimit = nextTeamLimit]
                      /\ last' = Returned(call)
                      /\ UNCHANGED <<teams, members, rounds, clues, clueStates,
                                     responses, nextId, claimed, calls, adjusted>>

\* startGame without its team check
noTeamsSkipped(teamCount) == FALSE

\* !game.teams.length
noTeams(teamCount) == teamCount = 0

startGame(gameId, actorId) ==
    LET call == [op |-> "startGame", gameId |-> gameId, actorId |-> actorId]
    IN  IF gameId \notin DOMAIN games THEN Fail(call, "Game not found")
        ELSE LET game == games[gameId]
             IN  IF ~ensureHostAccess(game, actorId)
                 THEN Fail(call, "Only the host can perform this action")
                 ELSE IF game.status # "LOBBY"
                 THEN Fail(call, "Game has already started")
                 ELSE IF noTeams(Cardinality(TeamsOf(gameId)))
                 THEN Fail(call, "Add at least one team before starting the game")
                 ELSE /\ games' = [games EXCEPT ![gameId].status = "IN_PROGRESS"]
                      /\ last' = Returned(call)
                      /\ UNCHANGED <<teams, members, rounds, clues, clueStates,
                                     responses, nextId, claimed, calls, adjusted>>

finishGame(gameId, actorId) ==
    LET call == [op |-> "finishGame", gameId |-> gameId, actorId |-> actorId]
    IN  IF gameId \notin DOMAIN games THEN Fail(call, "Game not found")
        ELSE LET game == games[gameId]
             IN  IF ~ensureHostAccess(game, actorId)
                 THEN Fail(call, "Only the host can perform this action")
                 ELSE IF game.status # "IN_PROGRESS"
                 THEN Fail(call, "Game must be in progress to finish")
                 ELSE /\ games' = [games EXCEPT ![gameId].status = "FINISHED"]
                      /\ last' = Returned(call)
                      /\ UNCHANGED <<teams, members, rounds, clues, clueStates,
                                     responses, nextId, claimed, calls, adjusted>>

\* ------------------------------------------------ team service (part_001)
\* a lobby check that lets every status through
ensureLobbyGameAnyStatus(game) == TRUE

\* if (game.status !== GameStatus.LOBBY) throw
ensureLobbyGame(game) == game.status = "LOBBY"

\* a role check that lets only hosts through
ensureHostOrOperatorHostOnly(user) == user.role = "HOST"

\* if (user.role !== HOST && user.role !== OPERATOR) throw
ensureHostOrOperator(user) == user.role = "HOST" \/ user.role = "OPERATOR"

\* a lookup that never finds a membership
MembershipsNone(teamId, userId) == {}

\* prisma.teamMember.findFirst({ where: { teamId, userId } })
Memberships(teamId, userId) ==
    {m \in BagToSet(members) : m.teamId = teamId /\ m.userId = userId}

\* the limit check off by one
teamLimitExceeded(teamCount, teamLimit) == teamCount > teamLimit

\* game.teams.length >= game.teamLimit
teamLimitReached(teamCount, teamLimit) == teamCount >= teamLimit

\* const nextOrder = game.teams.length + 1
nextOrder(teamCount) == teamCount + 1

\* lines 56-80: the message of the error thrown before the team is created,
\* "" when there is none
createTeamChecks(gameId, name, actorId) ==
    IF Trim(name) = <<>> THEN "Team name is required"
    ELSE IF gameId \notin DOMAIN games THEN "Game not found"
    ELSE IF actorId \notin Users THEN "Actor not found"
    ELSE IF ~ensureLobbyGame(games[gameId])
    THEN "Teams can only be managed while the game is in the lobby state"
    ELSE IF teamLimitReached(Cardinality(TeamsOf(gameId)), games[gameId].teamLimit)
    THEN "Team limit reached for this game"
    ELSE ""

\* lines 82-99, on the number of teams (game.teams.length) that the handler
\* holds: the team is created, with its captain when asked for
createTeamWrite(call, teamCount) ==
    LET id == nextId.team + 1
    IN  /\ id \in TeamIds
        /\ teams' = Insert(teams, id,
                [gameId |-> call.gameId, name |-> Trim(call.name),
                 order |-> nextOrder(teamCount), score |-> 0])
        /\ members' = IF call.makeCaptain
                      THEN members (+) SetToBag({[teamId |-> id, userId |-> call.actorId,
                                                  isCaptain |-> TRUE]})
                      ELSE members
        /\ nextId' = [nextId EXCEPT !.team = id]
        /\ last' = Returned(call @@ [teamId |-> id])
        /\ UNCHANGED <<games, rounds, clues, clueStates, responses, claimed>>

\* the handler run in one step
createTeam(gameId, name, actorId, makeCaptain) ==
    LET call == [op |-> "createTeam", gameId |-> gameId, name |-> name,
                 actorId |-> actorId, makeCaptain |-> makeCaptain]
        rejected == createTeamChecks(gameId, name, actorId)
    IN  IF rejected # "" THEN Fail(call, rejected)
        ELSE createTeamWrite(call, Cardinality(TeamsOf(gameId))) /\ UNCHANGED <<calls, adjusted>>

\* the handler run in two steps: it reads the game with its teams and checks
\* (lines 56-80) ...
createTeamRead(gameId, name, actorId, makeCaptain) ==
    LET call == [op |-> "createTeam", gameId |-> gameId, name |-> name,
                 actorId |-> actorId, makeCaptain |-> makeCaptain]
        rejected == createTeamChecks(gameId, name, actorId)
    IN  IF rejected # "" THEN Fail(call, rejected)
        ELSE /\ Len(calls) < MaxCalls
             /\ calls' = Append(calls, [call |-> call,
                                        read |-> Cardinality(TeamsOf(gameId)),
                                        pc |-> "write"])
             /\ UNCHANGED <<db, claimed, adjusted, last>>

\* ... and later, other handlers having run in between, it creates the team
\* (lines 82-99)
createTeamComplete(i) ==
    /\ i \in DOMAIN calls
    /\ calls[i].call.op = "createTeam" /\ calls[i].pc = "write"
    /\ createTeamWrite(calls[i].call,
                       heldValue(calls[i].read, Cardinality(TeamsOf(calls[i].call.gameId))))
    /\ calls' = [calls EXCEPT ![i].pc = "returned"]
    /\ UNCHANGED adjusted

joinTeam(teamId, userId, isCaptain) ==
    LET call == [op |-> "joinTeam", teamId |-> teamId, userId |-> userId,
                 isCaptain |-> isCaptain]
    IN  IF Memberships(teamId, userId) # {}
        THEN Fail(call, "User already joined this team")
        ELSE IF teamId \notin DOMAIN teams
        THEN Fail(call, "Record to update not found")   \* prisma.team.update rejects
        ELSE IF userId \notin Users
        THEN Fail(call, "Foreign key constraint failed") \* TeamMember.userId -> User
        ELSE /\ members' = members (+) SetToBag({[teamId |-> teamId, userId |-> userId,
                                                  isCaptain |-> isCaptain]})
             /\ last' = Returned(call)
             /\ UNCHANGED <<games, teams, rounds, clues, clueStates, responses, nextId,
                            claimed, calls, adjusted>>

leaveTeam(teamId, userId) ==
    LET call == [op |-> "leaveTeam", teamId |-> teamId, userId |-> userId]
    IN  IF Memberships(teamId, userId) = {}
        THEN Fail(call, "Membership not found")
        ELSE \E membership \in Memberships(teamId, userId) :
             /\ members' = members (-) SetToBag({membership})
             /\ last' = Returned(call)
             /\ UNCHANGED <<games, teams, rounds, clues, clueStates, responses, nextId,
                            claimed, calls, adjusted>>

\* re-numbering from the array index itself
reindexOrderZeroBased(index) == index

\* teams.map((t, index) => update({ where: { id: t.id }, data: { order: index + 1 } }))
reindexOrder(index) == index + 1

\* the rows `sorted` (a sequence of ids) of `table`, re-numbered by position
Reindexed(table, sorted) ==
    [i \in DOMAIN table |->
        IF \E k \in 1..Len(sorted) : sorted[k] = i
        THEN [table[i] EXCEPT !.order =
                reindexOrder((CHOOSE k \in 1..Len(sorted) : sorted[k] = i) - 1)]
        ELSE table[i]]

\* The team's TeamMember and TeamResponse rows are deleted with it (a Team owns
\* them; no row may reference a missing team).
removeTeam(teamId, actorId) ==
    LET call == [op |-> "removeTeam", teamId |-> teamId, actorId |-> actorId]
    IN  IF teamId \notin DOMAIN teams THEN Fail(call, "Team not found")
        ELSE LET team == teams[teamId]
                 game == games[team.gameId]
                 remaining == Delete(teams, {teamId})
                 sorted == SortByOrder(remaining,
                              {t \in DOMAIN remaining : remaining[t].gameId = team.gameId})
             IN  IF ~ensureLobbyGame(game)
                 THEN Fail(call, "Teams can only be managed while the game is in the lobby state")
                 ELSE IF game.hostId # actorId
                 THEN Fail(call, "Only the host can remove teams")
                 ELSE /\ teams' = Reindexed(remaining, sorted)
                      /\ members' = [m \in {r \in BagToSet(members) : r.teamId # teamId}
                                        |-> members[m]]
                      /\ responses' = Delete(responses,
                            {r \in DOMAIN responses : responses[r].teamId = teamId})
                      /\ last' = Returned(call)
                      /\ UNCHANGED <<games, rounds, clues, clueStates, nextId, claimed, calls,
                                     adjusted>>

adjustScore(teamId, delta, actorId) ==
    LET call == [op |-> "adjustScore", teamId |-> teamId, delta |-> delta,
                 actorId |-> actorId]
    IN  IF teamId \notin DOMAIN teams THEN Fail(call, "Team not found")
        ELSE IF actorId \notin Users THEN Fail(call, "Actor not found")
        ELSE IF /\ games[teams[teamId].gameId].hostId # actorId
                /\ ~ensureHostOrOperator([role |-> userRole[actorId]])
        THEN Fail(call, "Updating team score requires host or operator privileges")
        ELSE /\ teams[teamId].score + delta \in -MaxScore..MaxScore
             /\ adjusted[teamId] + delta \in -MaxScore..MaxScore
             /\ teams' = [teams EXCEPT ![teamId].score = @ + delta]
             /\ adjusted' = [adjusted EXCEPT ![teamId] = @ + delta]
             /\ last' = Returned(call)
             /\ UNCHANGED <<games, members, rounds, clues, clueStates, responses, nextId,
                            claimed, calls>>

\* ------------------------------------------ round.service.ts: the board
\* `categories` is a sequence of categories, each the sequence of its clues'
\* values; a round's clues are created with it, in one nested write.
RECURSIVE Flatten(_)
Flatten(categories) ==
    IF categories = <<>> THEN <<>> ELSE Head(categories) \o Flatten(Tail(categories))

createRound(actorId, gameId, categories, order) ==
    LET call == [op |-> "createRound", actorId |-> actorId, gameId |-> gameId,
                 categories |-> categories, order |-> order]
        id == nextId.round + 1
        values == Flatten(categories)
        RoundsOf == {r \in DOMAIN rounds : rounds[r].gameId = gameId}
    IN  IF Len(categories) = 0 THEN Fail(call, "At least one category is required")
        ELSE IF gameId \notin DOMAIN games THEN Fail(call, "Game not found")
        ELSE IF games[gameId].hostId # actorId
        THEN Fail(call, "Only the host can manage rounds")
        ELSE IF games[gameId].status # "LOBBY"
        THEN Fail(call, "Rounds can only be edited while the game is in the lobby state")
        ELSE /\ id \in RoundIds
             /\ rounds' = Insert(rounds, id,
                    [gameId |-> gameId,
                     order |-> Coalesce(order, Cardinality(RoundsOf) + 1)])
             /\ clues' = [c \in DOMAIN clues \cup (nextId.clue + 1 .. nextId.clue + Len(values))
                            |-> IF c \in DOMAIN clues THEN clues[c]
                                ELSE [roundId |-> id, value |-> values[c - nextId.clue]]]
             /\ nextId' = [nextId EXCEPT !.round = id, !.clue = @ + Len(values)]
             /\ last' = Returned(call @@ [roundId |-> id])
             /\ UNCHANGED <<games, teams, members, clueStates, responses, claimed, calls, adjusted>>

\* rows in no particular order
OrderedAnyhow(table, ids) ==
    {s \in [1..Cardinality(ids) -> ids] : \A i, j \in DOMAIN s : s[i] = s[j] => i = j}

\* findMany({ where: { gameId }, orderBy: { order: "asc" } }): the sequences
\* of the ids that the store may return; rows of equal order come in any order
OrderedByOrder(table, ids) ==
    {s \in [1..Cardinality(ids) -> ids] :
        /\ \A i, j \in DOMAIN s : s[i] = s[j] => i = j
        /\ \A i, j \in DOMAIN s : i < j => table[s[i]].order <= table[s[j]].order}

\* The round's clues (through its categories), their ClueState and
\* TeamResponse rows are deleted with it (a Round owns them; no row may
\* reference a missing clue).
deleteRound(roundId, actorId) ==
    LET call == [op |-> "deleteRound", roundId |-> roundId, actorId |-> actorId]
    IN  IF roundId \notin DOMAIN rounds THEN Fail(call, "Round not found")
        ELSE LET round == rounds[roundId]
                 game == games[round.gameId]
                 remaining == Delete(rounds, {roundId})
                 remainingRounds ==
                    {r \in DOMAIN remaining : remaining[r].gameId = round.gameId}
                 gone == {c \in DOMAIN clues : clues[c].roundId = roundId}
             IN  IF game.hostId # actorId
                 THEN Fail(call, "Only the host can manage rounds")
                 ELSE IF game.status # "LOBBY"
                 THEN Fail(call, "Cannot delete rounds once the game has started")
                 ELSE \E sorted \in OrderedByOrder(remaining, remainingRounds) :
                      /\ rounds' = Reindexed(remaining, sorted)
                      /\ clues' = Delete(clues, gone)
                      /\ clueStates' = Delete(clueStates,
                            {i \in DOMAIN clueStates : clueStates[i].clueId \in gone})
                      /\ responses' = Delete(responses,
                            {r \in DOMAIN responses : responses[r].clueId \in gone})
                      /\ claimed' = claimed \ gone
                      /\ last' = Returned(call)
                      /\ UNCHANGED <<games, teams, members, nextId, calls, adjusted>>

updateRoundOrder(roundId, newOrder, actorId) ==
    LET call == [op |-> "updateRoundOrder", roundId |-> roundId, newOrder |-> newOrder,
                 actorId |-> actorId]
    IN  IF roundId \notin DOMAIN rounds THEN Fail(call, "Round not found")
        ELSE LET game == games[rounds[roundId].gameId]
             IN  IF game.hostId # actorId
                 THEN Fail(call, "Only the host can manage rounds")
                 ELSE IF game.status # "LOBBY"
                 THEN Fail(call, "Cannot reorder rounds once the game has started")
                 ELSE /\ rounds' = [rounds EXCEPT ![roundId].order = newOrder]
                      /\ last' = Returned(call)
                      /\ UNCHANGED <<games, teams, members, clues, clueStates,
                                     responses, nextId, claimed, calls, adjusted>>

\* ------------------------------------------------ clue service (part_000)
\* clue.category.round.gameId
ClueGame(clueId) == rounds[clues[clueId].roundId].gameId

\* a status check that lets every status through
ensureGameInProgressAnyStatus(game) == TRUE

\* if (game.status !== GameStatus.IN_PROGRESS) throw
ensureGameInProgress(game) == game.status = "IN_PROGRESS"

\* prisma.clueState.findFirst({ where: { clueId } }): Null or Some(row), the
\* row with its id
findClueState(clueId) ==
    LET rows == {i \in DOMAIN clueStates : clueStates[i].clueId = clueId}
    IN  IF rows = {} THEN Null ELSE Some(clueStates[Min(rows)] @@ [id |-> Min(rows)])

\* a check that only looks for PENDING
alreadyTakenPendingOnly(state) == state # Null /\ state[1].state = "PENDING"

\* state && state.state !== ClueBoardState.AVAILABLE
alreadyTaken(state) == state # Null /\ state[1].state # "AVAILABLE"

\* lines 56-79: the message of the error thrown before the claim check, ""
\* when there is none
selectClueChecks(clueId, teamId, actorId) ==
    IF clueId \notin DOMAIN clues THEN "Clue not found"
    ELSE IF ~ensureGameInProgress(games[ClueGame(clueId)])
    THEN "Clues can only be selected while the game is in progress"
    ELSE IF teamId \notin DOMAIN teams THEN "Team not found"
    ELSE IF teams[teamId].gameId # ClueGame(clueId)
    THEN "Team and clue do not belong to the same game"
    ELSE IF Memberships(teamId, actorId) = {}
    THEN "Only team members can select a clue on behalf of their team"
    ELSE ""

\* lines 81-100, on the `state` that the handler holds: the claim check, then
\* the update of that row or the creation of a row.  The store rejects an
\* update of a row that is gone and a row for a clue that is gone.
selectClueWrite(call, state) ==
    LET id == nextId.clueState + 1
        rejected ==
            IF alreadyTaken(state) THEN "Clue has already been taken"
            ELSE IF state # Null /\ state[1].id \notin DOMAIN clueStates
            THEN "Record to update not found"
            ELSE IF state = Null /\ call.clueId \notin DOMAIN clues
            THEN "Foreign key constraint failed"
            ELSE ""
    IN  IF rejected # ""
        THEN /\ last' = Thrown(call, rejected)
             /\ UNCHANGED <<db, claimed>>
        ELSE /\ IF state # Null
                THEN /\ clueStates' = [clueStates EXCEPT
                            ![state[1].id].state = "PENDING",
                            ![state[1].id].pickedByTeamId = Some(call.teamId)]
                     /\ UNCHANGED nextId
                ELSE /\ clueStates' = Insert(clueStates, id,
                            [clueId |-> call.clueId, gameId |-> ClueGame(call.clueId),
                             state |-> "PENDING", pickedByTeamId |-> Some(call.teamId),
                             resolvedById |-> Null])
                     /\ nextId' = [nextId EXCEPT !.clueState = id]
             /\ claimed' = claimed \cup {call.clueId}
             /\ last' = Returned(call)
             /\ UNCHANGED <<games, teams, members, rounds, clues, responses>>

\* the handler run in one step
selectClue(clueId, teamId, actorId) ==
    LET call == [op |-> "selectClue", clueId |-> clueId, teamId |-> teamId,
                 actorId |-> actorId]
        rejected == selectClueChecks(clueId, teamId, actorId)
    IN  IF rejected # "" THEN Fail(call, rejected)
        ELSE selectClueWrite(call, findClueState(clueId)) /\ UNCHANGED <<calls, adjusted>>

\* the handler run in two steps: it reads and checks (lines 56-79) ...
selectClueRead(clueId, teamId, actorId) ==
    LET call == [op |-> "selectClue", clueId |-> clueId, teamId |-> teamId,
                 actorId |-> actorId]
        rejected == selectClueChecks(clueId, teamId, actorId)
    IN  IF rejected # "" THEN Fail(call, rejected)
        ELSE /\ Len(calls) < MaxCalls
             /\ calls' = Append(calls, [call |-> call, read |-> findClueState(clueId),
                                        pc |-> "write"])
             /\ UNCHANGED <<db, claimed, adjusted, last>>

\* ... and later, other handlers having run in between, it checks the claim
\* and writes (lines 81-100)
selectClueComplete(i) ==
    /\ i \in DOMAIN calls
    /\ calls[i].call.op = "selectClue" /\ calls[i].pc = "write"
    /\ selectClueWrite(calls[i].call,
                       heldValue(calls[i].read, findClueState(calls[i].call.clueId)))
    /\ calls' = [calls EXCEPT ![i].pc = IF last'.ok THEN "returned" ELSE "thrown"]
    /\ UNCHANGED adjusted

updateClueState(clueId, state, resolvedById) ==
    LET call == [op |-> "updateClueState", clueId |-> clueId, state |-> state,
                 resolvedById |-> resolvedById]
        existingState == findClueState(clueId)
    IN  IF clueId \notin DOMAIN clues THEN Fail(call, "Clue not found")
        ELSE IF resolvedById \notin Users THEN Fail(call, "Operator not found")
        ELSE IF existingState = Null THEN Fail(call, "Clue state not found")
        ELSE /\ clueStates' = [clueStates EXCEPT
                    ![existingState[1].id].state = state,
                    ![existingState[1].id].resolvedById = Some(resolvedById)]
             /\ last' = Returned(call)
             /\ UNCHANGED <<games, teams, members, rounds, clues, responses, nextId,
                            claimed, calls, adjusted>>

\* a reset that leaves the claim in place
resetRowStateOnly(row) == [row EXCEPT !.state = "AVAILABLE"]

\* the row resetClueState writes over an existing one
resetRow(row) ==
    [row EXCEPT !.state = "AVAILABLE", !.pickedByTeamId = Null, !.resolvedById = Null]

\* lines 133-139: the message of the error thrown before the row is looked
\* up, "" when there is none
resetClueStateChecks(clueId, actorId) ==
    IF clueId \notin DOMAIN clues THEN "Clue not found"
    ELSE IF actorId \notin Users THEN "Operator not found"
    ELSE ""

\* lines 143-160, on the `state` that the handler holds: the creation of an
\* AVAILABLE row or the reset of that row
resetClueStateWrite(call, state) ==
    LET id == nextId.clueState + 1
        rejected ==
            IF state # Null /\ state[1].id \notin DOMAIN clueStates
            THEN "Record to update not found"
            ELSE IF state = Null /\ call.clueId \notin DOMAIN clues
            THEN "Foreign key constraint failed"
            ELSE ""
    IN  IF rejected # ""
        THEN /\ last' = Thrown(call, rejected)
             /\ UNCHANGED <<db, claimed>>
        ELSE /\ IF state = Null
                THEN /\ clueStates' = Insert(clueStates, id,
                            [clueId |-> call.clueId, gameId |-> ClueGame(call.clueId),
                             state |-> "AVAILABLE", pickedByTeamId |-> Null,
                             resolvedById |-> Null])
                     /\ nextId' = [nextId EXCEPT !.clueState = id]
                ELSE /\ clueStates' = [clueStates EXCEPT ![state[1].id] = resetRow(@)]
                     /\ UNCHANGED nextId
             /\ claimed' = claimed \ {call.clueId}
             /\ last' = Returned(call)
             /\ UNCHANGED <<games, teams, members, rounds, clues, responses>>

\* the handler run in one step
resetClueState(clueId, actorId) ==
    LET call == [op |-> "resetClueState", clueId |-> clueId, actorId |-> actorId]
        rejected == resetClueStateChecks(clueId, actorId)
    IN  IF rejected # "" THEN Fail(call, rejected)
        ELSE resetClueStateWrite(call, findClueState(clueId)) /\ UNCHANGED <<calls, adjusted>>

\* the handler run in two steps: it reads the row (lines 133-141) ...
resetClueStateRead(clueId, actorId) ==
    LET call == [op |-> "resetClueState", clueId |-> clueId, actorId |-> actorId]
        rejected == resetClueStateChecks(clueId, actorId)
    IN  IF rejected # "" THEN Fail(call, rejected)
        ELSE /\ Len(calls) < MaxCalls
             /\ calls' = Append(calls, [call |-> call, read |-> findClueState(clueId),
                                        pc |-> "write"])
             /\ UNCHANGED <<db, claimed, adjusted, last>>

\* ... and later, other handlers having run in between, it writes (lines
\* 143-160)
resetClueStateComplete(i) ==
    /\ i \in DOMAIN calls
    /\ calls[i].call.op = "resetClueState" /\ calls[i].pc = "write"
    /\ resetClueStateWrite(calls[i].call,
                           heldValue(calls[i].read, findClueState(calls[i].call.clueId)))
    /\ calls' = [calls EXCEPT ![i].pc = IF last'.ok THEN "returned" ELSE "thrown"]
    /\ UNCHANGED adjusted

\* --------------------------------------- game.service.ts: team responses
\* a role check that lets every user through
ensureOperatorAnyRole(user) == TRUE

\* if (user.role !== OPERATOR && user.role !== HOST) throw
ensureOperator(user) == user.role = "OPERATOR" \/ user.role = "HOST"

submitResponse(clueId, teamId, submittedById) ==
    LET call == [op |-> "submitResponse", clueId |-> clueId, teamId |-> teamId,
                 submittedById |-> submittedById]
        id == nextId.response + 1
    IN  IF Memberships(teamId, submittedById) = {}
        THEN Fail(call, "Only team members can submit answers for their team")
        ELSE IF clueId \notin DOMAIN clues
        THEN Fail(call, "Foreign key constraint failed")  \* TeamResponse.clueId -> Clue
        ELSE /\ id \in ResponseIds
             /\ responses' = Insert(responses, id,
                    [teamId |-> teamId, clueId |-> clueId, submittedById |-> submittedById,
                     isCorrect |-> Null, awardedValue |-> Null, validatedById |-> Null])
             /\ nextId' = [nextId EXCEPT !.response = id]
             /\ last' = Returned(call @@ [responseId |-> id])
             /\ UNCHANGED <<games, teams, members, rounds, clues, clueStates, claimed, calls,
                            adjusted>>

\* awardedValue || (...): an awarded value of 0 counts as not given
scoreDeltaOr(isCorrect, awardedValue, clueValue) ==
    IF awardedValue # Null /\ awardedValue[1] # 0 THEN awardedValue[1]
    ELSE IF isCorrect THEN clueValue ELSE -clueValue

\* awardedValue ?? (isCorrect ? response.clue.value : -response.clue.value)
scoreDelta(isCorrect, awardedValue, clueValue) ==
    IF awardedValue # Null THEN awardedValue[1]
    ELSE IF isCorrect THEN clueValue ELSE -clueValue

\* the three writes issued without a transaction around them
transactionNoRollback(before, written, threw) == written

\* prisma.$transaction: what the store holds once the callback has ended;
\* `written` is what the callback wrote up to its end or its throw
transaction(before, written, threw) == IF threw THEN before ELSE written

\* `fault` injects a store error inside the transaction: "none", or after
\* write (a), (b) or (c).
validateResponse(responseId, isCorrect, awardedValue, operatorId, fault) ==
    LET call == [op |-> "validateResponse", responseId |-> responseId,
                 isCorrect |-> isCorrect, awardedValue |-> awardedValue,
                 operatorId |-> operatorId]
    IN  IF operatorId \notin Users THEN Fail(call, "Operator not found")
        ELSE IF ~ensureOperator([role |-> userRole[operatorId]])
        THEN Fail(call, "Only operators or hosts can validate responses")
        ELSE IF responseId \notin DOMAIN responses THEN Fail(call, "Response not found")
        ELSE
        LET response == responses[responseId]
            delta == scoreDelta(isCorrect, awardedValue, clues[response.clueId].value)
            clueState == findClueState(response.clueId)
            \* (a) tx.teamResponse.update
            respA == [responses EXCEPT ![responseId].isCorrect = Some(isCorrect),
                                       ![responseId].awardedValue = Some(delta),
                                       ![responseId].validatedById = Some(operatorId)]
            \* (b) tx.team.update, which rejects when the team is gone
            teamGone == delta # 0 /\ response.teamId \notin DOMAIN teams
            teamsB == IF delta # 0 /\ ~teamGone
                      THEN [teams EXCEPT ![response.teamId].score = @ + delta]
                      ELSE teams
            \* (c) tx.clueState.update
            statesC == IF clueState # Null
                       THEN [clueStates EXCEPT
                                ![clueState[1].id].state =
                                    IF isCorrect THEN "CORRECT" ELSE "INCORRECT",
                                ![clueState[1].id].resolvedById = Some(operatorId)]
                       ELSE clueStates
            threw == fault # "none" \/ teamGone
            reachedB == ~teamGone /\ fault \in {"none", "afterB", "afterC"}
            reachedC == ~teamGone /\ fault \in {"none", "afterC"}
            before == [responses |-> responses, teams |-> teams, clueStates |-> clueStates]
            written == [responses |-> respA,
                        teams |-> IF reachedB THEN teamsB ELSE teams,
                        clueStates |-> IF reachedC THEN statesC ELSE clueStates]
            after == transaction(before, written, threw)
        IN  /\ \A t \in DOMAIN teamsB : teamsB[t].score \in -MaxScore..MaxScore
            /\ responses' = after.responses
            /\ teams' = after.teams
            /\ clueStates' = after.clueStates
            /\ last' = IF threw THEN Thrown(call, "Transaction failed") ELSE Returned(call)
            /\ UNCHANGED <<games, members, rounds, clues, nextId, claimed, calls, adjusted>>

\* ------------------------------------------------------------------ inputs
Blank == <<" ">>
BoardStates == {"AVAILABLE", "PENDING", "CORRECT", "INCORRECT"}
Faults == {"none", "afterA", "afterB", "afterC"}
\* Roster and lifecycle of a game in the lobby.
NextLobby ==
    \/ DOMAIN games = {} /\ \E limit \in {Null, Some(0), Some(2)} :
            createGame("h", <<"Q", " ">>, limit)
    \/ createGame("h", Blank, Null)
    \/ \E g \in GameIds, limit \in {Some(0), Some(1), Some(3)} :
            updateGameSettings(g, Null, limit, "h")
    \/ \E g \in GameIds, actor \in {"h", "o"} : startGame(g, actor)
    \/ \E g \in GameIds, actor \in {"h", "o"} : finishGame(g, actor)
    \/ \E g \in GameIds, actor \in {"p", NoUser} : createTeam(g, <<" ", "A">>, actor, TRUE)
    \/ \E g \in GameIds : createTeam(g, Blank, "p", TRUE)
    \/ \E t \in TeamIds, actor \in {"h", "o"} : removeTeam(t, actor)

SpecLobby == Init /\ [][NextLobby]_vars

\* One game is set up with two teams and a board of two clues (one category,
\* values 1 and 2), and the clues are claimed, overridden and reset.
NextBoard ==
    \/ DOMAIN games = {} /\ createGame("h", <<"Q">>, Some(2))
    \/ DOMAIN rounds = {} /\ createRound("h", 1, << <<1, 2>> >>, Null)
    \/ createTeam(1, <<"A">>, "p", TRUE)
    \/ startGame(1, "h")
    \/ finishGame(1, "h")
    \/ \E c \in 1..2, t \in 1..2 : selectClue(c, t, "p")
    \/ \E t \in 1..3 : selectClue(1, t, "q")
    \/ \E c \in 1..2, st \in BoardStates : updateClueState(c, st, "o")
    \/ \E c \in 1..3, actor \in {"o", NoUser} : resetClueState(c, actor)

SpecBoard == Init /\ [][NextBoard]_vars

\* One game is set up with two teams and one clue of value 1; the clue is
\* claimed and reset, answers are submitted, validated and scored.
NextPlay ==
    \/ DOMAIN games = {} /\ createGame("h", <<"Q">>, Some(2))
    \/ DOMAIN rounds = {} /\ createRound("h", 1, << <<1>> >>, Null)
    \/ createTeam(1, <<"A">>, "p", TRUE)
    \/ startGame(1, "h")
    \/ selectClue(1, 1, "p")
    \/ resetClueState(1, "o")
    \/ \E t \in 1..2 : submitResponse(1, t, "p")
    \/ \E r \in ResponseIds, isCorrect \in BOOLEAN, awarded \in {Null, Some(0)} :
            validateResponse(r, isCorrect, awarded, "o", "none")
    \/ \E r \in ResponseIds : validateResponse(r, FALSE, Some(2), "o", "none")
    \/ \E r \in ResponseIds, isCorrect \in BOOLEAN, fault \in Faults \ {"none"} :
            validateResponse(r, isCorrect, Null, "o", fault)
    \/ \E actor \in {"p", NoUser} : validateResponse(1, TRUE, Null, actor, "none")
    \/ validateResponse(0, TRUE, Null, "o", "none")

SpecPlay == Init /\ [][NextPlay]_vars

\* One game with up to two teams, created with or without their captain;
\* players join and leave them.
NextRoster ==
    \/ DOMAIN games = {} /\ createGame("h", <<"Q">>, Some(2))
    \/ \E actor \in {"p", "q"}, makeCaptain \in BOOLEAN :
            createTeam(1, <<"A">>, actor, makeCaptain)
    \/ \E t \in TeamIds, u \in {"p", "q", NoUser}, isCaptain \in BOOLEAN :
            joinTeam(t, u, isCaptain)
    \/ \E t \in TeamIds, u \in {"p", "q"} : leaveTeam(t, u)

SpecRoster == Init /\ [][NextRoster]_vars

\* The board of one game is authored: rounds (each of one category without
\* clues) are created with a default or an explicit order, re-ordered and
\* deleted; the game has a team, its settings are edited, and it is started
\* and finished.
NextAuthoring ==
    \/ DOMAIN games = {} /\ createGame("h", <<"Q">>, Some(2))
    \/ \E order \in {Null, Some(1), Some(5)} : createRound("h", 1, << <<>> >>, order)
    \/ \E r \in RoundIds, actor \in {"h", "o"} : deleteRound(r, actor)
    \/ \E r \in RoundIds : updateRoundOrder(r, 3, "h")
    \/ updateGameSettings(1, Some(<<"R">>), Some(1), "h")
    \/ createTeam(1, <<"A">>, "p", FALSE)
    \/ removeTeam(1, "h")
    \/ startGame(1, "h")
    \/ finishGame(1, "h")

SpecAuthoring == Init /\ [][NextAuthoring]_vars

\* Two games of one team each; the first has a board of one clue, which the
\* teams of both games try to claim in every status of the games; teams are
\* removed and created again.
NextTwoGames ==
    \/ createGame("h", <<"Q">>, Some(1))
    \/ DOMAIN rounds = {} /\ createRound("h", 1, << <<1>> >>, Null)
    \/ \E g \in GameIds : createTeam(g, <<"A">>, "p", TRUE)
    \/ \E g \in GameIds : startGame(g, "h")
    \/ finishGame(1, "h")
    \/ \E t \in TeamIds, actor \in {"p", "q"} : selectClue(1, t, actor)
    \/ resetClueState(1, "o")
    \/ updateClueState(1, "CORRECT", "o")
    \/ \E t \in TeamIds : removeTeam(t, "h")

SpecTwoGames == Init /\ [][NextTwoGames]_vars

\* Handlers of the clue service that overlap: on a game in progress with two
\* teams and one clue, selectClue and resetClueState calls run in two steps
\* each, in any interleaving.  The one-step resetClueState sets the board up
\* before any of them starts.
NextClaimRace ==
    \/ DOMAIN games = {} /\ createGame("h", <<"Q">>, Some(2))
    \/ DOMAIN rounds = {} /\ createRound("h", 1, << <<1>> >>, Null)
    \/ createTeam(1, <<"A">>, "p", TRUE)
    \/ startGame(1, "h")
    \/ calls = <<>> /\ resetClueState(1, "o")
    \/ \E t \in 1..2 : selectClueRead(1, t, "p")
    \/ \E i \in 1..MaxCalls : selectClueComplete(i)
    \/ resetClueStateRead(1, "o")
    \/ \E i \in 1..MaxCalls : resetClueStateComplete(i)

SpecClaimRace == Init /\ [][NextClaimRace]_vars

\* Handlers of the team service that overlap: on a game of team limit 2,
\* createTeam calls run in two steps each, in any interleaving, next to
\* createTeam calls that run in one step.
NextTeamRace ==
    \/ DOMAIN games = {} /\ createGame("h", <<"Q">>, Some(2))
    \/ \E actor \in {"p", NoUser} : createTeam(1, <<"A">>, actor, TRUE)
    \/ \E makeCaptain \in BOOLEAN : createTeamRead(1, <<"A">>, "p", makeCaptain)
    \/ \E i \in 1..MaxCalls : createTeamComplete(i)
    \/ startGame(1, "h")

SpecTeamRace == Init /\ [][NextTeamRace]_vars

\* Scores: a game hosted by the player "p" has two teams and one clue of
\* value 1; scores are adjusted by every kind of actor, an answer is
\* submitted and validated, again and again.
NextScore ==
    \/ DOMAIN games = {} /\ createGame("p", <<"Q">>, Some(2))
    \/ DOMAIN rounds = {} /\ createRound("p", 1, << <<1>> >>, Null)
    \/ createTeam(1, <<"A">>, "p", TRUE)
    \/ submitResponse(1, 1, "p")
    \/ \E r \in ResponseIds, isCorrect \in BOOLEAN :
            validateResponse(r, isCorrect, Null, "o", "none")
    \/ \E t \in TeamIds, delta \in {-1, 1}, actor \in Users \cup {NoUser} :
            adjustScore(t, delta, actor)

SpecScore == Init /\ [][NextScore]_vars

\* The whole machine: every service call.  NextLobby, NextBoard and NextPlay
\* each imply Next, so their behaviours are behaviours of Spec.
Next ==
    \/ NextLobby
    \/ NextBoard
    \/ NextPlay
    \/ NextRoster
    \/ NextAuthoring
    \/ NextTwoGames
    \/ NextClaimRace
    \/ NextTeamRace
    \/ NextScore
    \/ \E t \in TeamIds, u \in Users \cup {NoUser}, isCaptain \in BOOLEAN :
            joinTeam(t, u, isCaptain)
    \/ \E t \in TeamIds, u \in Users : leaveTeam(t, u)
    \/ \E t \in TeamIds, delta \in {-1, 1}, actor \in Users \cup {NoUser} :
            adjustScore(t, delta, actor)

Spec == Init /\ [][Next]_vars

\* ================================================================== claims
\* the ClueState rows of a clue
RowsOf(states, clueId) == {i \in DOMAIN states : states[i].clueId = clueId}

TakenMsg == "Clue has already been taken"
LimitMsg == "Team limit reached for this game"

\* C1: once a selectClue has succeeded for a clue, every later selectClue for
\* that clue fails and leaves the ClueState rows unchanged, until a
\* resetClueState of the clue, whatever other operations ran in between; a
\* call that passes the checks made before the claim check (game in progress,
\* team of the clue's game, actor a member) fails with "Clue has already been
\* taken".
C1_SingleClaimGate ==
    [][ (last'.op = "selectClue" /\ last'.clueId \in claimed) =>
            /\ ~last'.ok
            /\ clueStates' = clueStates
            /\ ( ( /\ games[ClueGame(last'.clueId)].status = "IN_PROGRESS"
                   /\ last'.teamId \in DOMAIN teams
                   /\ teams[last'.teamId].gameId = ClueGame(last'.clueId)
                   /\ Memberships(last'.teamId, last'.actorId) # {} )
                 => last'.err = TakenMsg ) ]_vars

\* C2: validateResponse is all-or-nothing.  A validateResponse step either
\* returns with the response marked (isCorrect, awardedValue, validatedById),
\* the team's score moved by the recorded awardedValue and the clue's
\* ClueState (when there is one) resolved, or it throws and the responses,
\* the teams and the clue states are all as before.
C2_ValidateAllOrNothing ==
    [][ last'.op = "validateResponse" =>
          \/ /\ ~last'.ok
             /\ responses' = responses /\ teams' = teams /\ clueStates' = clueStates
          \/ /\ last'.ok
             /\ LET r == last'.responseId
                    t == responses[r].teamId
                    c == responses[r].clueId
                IN  /\ responses'[r].isCorrect = Some(last'.isCorrect)
                    /\ responses'[r].validatedById = Some(last'.operatorId)
                    /\ responses'[r].awardedValue # Null
                    /\ teams'[t].score = teams[t].score + responses'[r].awardedValue[1]
                    /\ \A i \in RowsOf(clueStates, c) :
                          /\ clueStates'[i].state =
                                IF last'.isCorrect THEN "CORRECT" ELSE "INCORRECT"
                          /\ clueStates'[i].resolvedById = Some(last'.operatorId) ]_vars

\* a transaction failed and was rolled back: the response is still
\* unvalidated and no score has moved
C2_Witness ==
    /\ last.op = "validateResponse" /\ ~last.ok /\ last.err = "Transaction failed"
    /\ responses[last.responseId].isCorrect = Null
    /\ \A t \in DOMAIN teams : teams[t].score = 0
    /\ \E i \in DOMAIN clueStates : clueStates[i].state = "PENDING"

\* C3: a successful validateResponse changes the team's score by exactly
\* scoreDelta (the awardedValue when one is given, 0 included and whatever
\* isCorrect is; else +clue.value when correct, else -clue.value), records
\* that scoreDelta as the response's awardedValue, and changes no other team.
C3_ScoreChangesByDelta ==
    [][ (last'.op = "validateResponse" /\ last'.ok) =>
          LET r == last'.responseId
              t == responses[r].teamId
              value == clues[responses[r].clueId].value
              given == last'.awardedValue
              delta == CASE given # Null -> given[1]
                         [] given = Null /\ last'.isCorrect -> value
                         [] given = Null /\ ~last'.isCorrect -> 0 - value
          IN  /\ teams'[t].score = teams[t].score + delta
              /\ responses'[r].awardedValue = Some(delta)
              /\ DOMAIN teams' = DOMAIN teams
              /\ \A u \in DOMAIN teams \ {t} : teams'[u] = teams[u] ]_vars

\* an incorrect answer was awarded 2 points all the same, on top of -1
C3_Witness ==
    /\ last.op = "validateResponse" /\ last.ok
    /\ last.awardedValue = Some(2) /\ ~last.isCorrect
    /\ teams[responses[last.responseId].teamId].score = 1
    /\ Cardinality(DOMAIN teams) = 2

\* C4: a ClueState's state only changes AVAILABLE -> PENDING, PENDING ->
\* CORRECT, PENDING -> INCORRECT, or to AVAILABLE by resetClueState; a row is
\* created AVAILABLE or PENDING.
C4_TransitionsOnly ==
    [][ \A i \in DOMAIN clueStates' :
          IF i \in DOMAIN clueStates
          THEN LET old == clueStates[i].state
                   new == clueStates'[i].state
               IN  old # new =>
                     \/ old = "AVAILABLE" /\ new = "PENDING"
                     \/ old = "PENDING" /\ new \in {"CORRECT", "INCORRECT"}
                     \/ new = "AVAILABLE" /\ last'.op = "resetClueState"
          ELSE clueStates'[i].state \in {"AVAILABLE", "PENDING"} ]_vars

\* C5: startGame on an existing game succeeds iff the actor is the host, the
\* status is LOBBY and the game has at least one team; on success the status
\* is IN_PROGRESS, on failure it is unchanged.
C5_StartGame ==
    [][ (last'.op = "startGame" /\ last'.gameId \in DOMAIN games) =>
          LET g == last'.gameId
          IN  /\ last'.ok <=> ( /\ last'.actorId = games[g].hostId
                                /\ games[g].status = "LOBBY"
                                /\ Cardinality(TeamsOf(g)) >= 1 )
              /\ last'.ok => games'[g].status = "IN_PROGRESS"
              /\ ~last'.ok => games'[g].status = games[g].status ]_vars

C5_Witness ==
    /\ last.op = "startGame" /\ last.ok
    /\ games[last.gameId].status = "IN_PROGRESS"
    /\ TeamsOf(last.gameId) # {}

\* C6: the number of teams of each game is at most the game's teamLimit.
C6_TeamCountWithinLimit ==
    \A g \in DOMAIN games : Cardinality(TeamsOf(g)) <= games[g].teamLimit

\* what C7 says of a createTeam step on game g that found n teams
CreateTeamOutcome(g, n) ==
    /\ n = games[g].teamLimit =>
          ~last'.ok /\ last'.err = LimitMsg /\ teams' = teams
    /\ n < games[g].teamLimit =>
          /\ last'.ok
          /\ \E id \in DOMAIN teams' \ DOMAIN teams :
                /\ DOMAIN teams' = DOMAIN teams \cup {id}
                /\ teams'[id].gameId = g
                /\ teams'[id].order = n + 1
                /\ \A t \in DOMAIN teams : teams'[t] = teams[t]

\* C7 as stated: createTeam on a LOBBY game with a non-blank name fails with
\* the team-limit error when the team count equals teamLimit, and succeeds
\* when it is below, adding exactly one team of order count + 1.
C7_CreateTeamAsStated ==
    [][ ( /\ last'.op = "createTeam"
          /\ last'.gameId \in DOMAIN games
          /\ games[last'.gameId].status = "LOBBY"
          /\ Trim(last'.name) # <<>> )
        => CreateTeamOutcome(last'.gameId, Cardinality(TeamsOf(last'.gameId))) ]_vars

\* C7 (amended): the same, for a createTeam whose actor exists.
C7_CreateTeam ==
    [][ ( /\ last'.op = "createTeam"
          /\ last'.gameId \in DOMAIN games
          /\ games[last'.gameId].status = "LOBBY"
          /\ Trim(last'.name) # <<>>
          /\ last'.actorId \in Users )
        => CreateTeamOutcome(last'.gameId, Cardinality(TeamsOf(last'.gameId))) ]_vars

\* a createTeam was refused on a full game that already has teams
C7_Witness ==
    /\ last.op = "createTeam" /\ ~last.ok /\ last.err = LimitMsg
    /\ Cardinality(TeamsOf(last.gameId)) = games[last.gameId].teamLimit
    /\ Cardinality(TeamsOf(last.gameId)) = 2

\* the teams of every game are numbered 1..N
OrdersContiguous ==
    \A g \in DOMAIN games :
        /\ {teams[t].order : t \in TeamsOf(g)} = 1..Cardinality(TeamsOf(g))
        /\ \A a, b \in TeamsOf(g) : teams[a].order = teams[b].order => a = b

\* C8: after every createTeam and removeTeam the teams of each game have the
\* order values 1..N without gap or duplicate, and a removeTeam keeps the
\* remaining teams in their previous relative order.
C8_TeamOrdersContiguous ==
    [][ /\ OrdersContiguous'
        /\ (last'.op = "removeTeam" /\ last'.ok) =>
              /\ DOMAIN teams' = DOMAIN teams \ {last'.teamId}
              /\ \A a, b \in DOMAIN teams' :
                    (teams[a].gameId = teams[b].gameId /\ teams[a].order < teams[b].order)
                        => teams'[a].order < teams'[b].order ]_vars

\* a team other than the last was removed and two teams moved up
C8_Witness ==
    /\ last.op = "removeTeam" /\ last.ok
    /\ Cardinality({t \in DOMAIN teams : teams[t].order < t}) >= 2

\* C9: resetClueState with an existing clue and an existing actor returns and
\* leaves the clue with one ClueState, AVAILABLE with pickedByTeamId and
\* resolvedById null; no team and no other clue's ClueState changes.
C9_ResetClueState ==
    [][ ( /\ last'.op = "resetClueState"
          /\ last'.clueId \in DOMAIN clues
          /\ last'.actorId \in Users )
        => LET c == last'.clueId
           IN  /\ last'.ok
               /\ RowsOf(clueStates', c) # {}
               /\ \A i \in RowsOf(clueStates', c) :
                     /\ clueStates'[i].state = "AVAILABLE"
                     /\ clueStates'[i].pickedByTeamId = Null
                     /\ clueStates'[i].resolvedById = Null
               /\ teams' = teams
               /\ \A i \in DOMAIN clueStates' \ RowsOf(clueStates', c) :
                     i \in DOMAIN clueStates /\ clueStates'[i] = clueStates[i]
               /\ \A i \in DOMAIN clueStates : i \in DOMAIN clueStates' ]_vars

\* a resolved clue was reset while the other clue stays claimed
C9_Witness ==
    /\ last.op = "resetClueState" /\ last.ok
    /\ last.clueId \notin claimed
    /\ \E i \in RowsOf(clueStates, last.clueId) : clueStates[i].state = "AVAILABLE"
    /\ \E i \in DOMAIN clueStates :
          /\ clueStates[i].clueId # last.clueId
          /\ clueStates[i].state = "CORRECT"
          /\ clueStates[i].pickedByTeamId # Null

\* C10: a successful selectClue(clueId, teamId, actorId) leaves the clue with
\* a ClueState that is PENDING and picked by teamId: a row is created when
\* there was none, and the existing row, which was AVAILABLE, is updated
\* otherwise.
C10_SelectClue ==
    [][ (last'.op = "selectClue" /\ last'.ok) =>
          LET c == last'.clueId
              before == RowsOf(clueStates, c)
              after == RowsOf(clueStates', c)
          IN  /\ Cardinality(after) = 1
              /\ \A i \in after :
                    /\ clueStates'[i].state = "PENDING"
                    /\ clueStates'[i].pickedByTeamId = Some(last'.teamId)
              /\ before = {} => DOMAIN clueStates' = DOMAIN clueStates \cup after
              /\ before # {} =>
                    /\ after = before
                    /\ DOMAIN clueStates' = DOMAIN clueStates
                    /\ \A i \in before : clueStates[i].state = "AVAILABLE"
              /\ \A i \in DOMAIN clueStates \ before : clueStates'[i] = clueStates[i] ]_vars

\* an existing AVAILABLE row (once resolved by an operator) was claimed
C10_Witness ==
    /\ last.op = "selectClue" /\ last.ok
    /\ \E i \in RowsOf(clueStates, last.clueId) :
          /\ clueStates[i].state = "PENDING"
          /\ clueStates[i].pickedByTeamId = Some(last.teamId)
          /\ clueStates[i].resolvedById # Null

\* C11: resetClueState is the only operation that brings a ClueState to
\* AVAILABLE: every step in which a row's state changes from a non-AVAILABLE
\* value to AVAILABLE is a resetClueState step.
C11_OnlyResetMakesAvailable ==
    [][ \A i \in DOMAIN clueStates \cap DOMAIN clueStates' :
          (clueStates[i].state # "AVAILABLE" /\ clueStates'[i].state = "AVAILABLE")
              => last'.op = "resetClueState" ]_vars

\* C13: a game's status only moves forward along LOBBY -> IN_PROGRESS ->
\* FINISHED.  A game is created in LOBBY; a status changes only from LOBBY to
\* IN_PROGRESS in a successful startGame of that game, or from IN_PROGRESS to
\* FINISHED in a successful finishGame of that game; finishGame succeeds only
\* for the host of a game that is IN_PROGRESS.
C13_StatusForwardOnly ==
    [][ /\ \A g \in DOMAIN games' \ DOMAIN games :
              games'[g].status = "LOBBY" /\ last'.op = "createGame" /\ last'.ok
        /\ \A g \in DOMAIN games :
              /\ g \in DOMAIN games'
              /\ games'[g].status # games[g].status =>
                    /\ last'.ok /\ last'.gameId = g
                    /\ \/ /\ games[g].status = "LOBBY" /\ games'[g].status = "IN_PROGRESS"
                          /\ last'.op = "startGame"
                       \/ /\ games[g].status = "IN_PROGRESS" /\ games'[g].status = "FINISHED"
                          /\ last'.op = "finishGame"
        /\ (last'.op = "finishGame" /\ last'.ok) =>
              /\ last'.gameId \in DOMAIN games
              /\ last'.actorId = games[last'.gameId].hostId
              /\ games[last'.gameId].status = "IN_PROGRESS"
              /\ games'[last'.gameId].status = "FINISHED" ]_vars

\* a game went through all three statuses and a later startGame was refused
C13_Witness ==
    /\ last.op = "startGame" /\ ~last.ok /\ last.err = "Game has already started"
    /\ games[last.gameId].status = "FINISHED"

\* C20: validateResponse fails and changes no response, no team score and no
\* ClueState when the operator does not exist, when the operator's role is
\* neither OPERATOR nor HOST, or when the response does not exist.
C20_ValidateResponseRejects ==
    [][ ( /\ last'.op = "validateResponse"
          /\ \/ last'.operatorId \notin Users
             \/ userRole[last'.operatorId] \notin {"OPERATOR", "HOST"}
             \/ last'.responseId \notin DOMAIN responses )
        => /\ ~last'.ok
           /\ responses' = responses
           /\ teams' = teams
           /\ clueStates' = clueStates ]_vars

\* a player tried to validate a submitted answer to a claimed clue; the
\* answer is still unvalidated and the clue still PENDING
C20_Witness ==
    /\ last.op = "validateResponse" /\ ~last.ok
    /\ last.operatorId \in Users /\ userRole[last.operatorId] = "PLAYER"
    /\ last.responseId \in DOMAIN responses
    /\ responses[last.responseId].isCorrect = Null
    /\ \E i \in RowsOf(clueStates, responses[last.responseId].clueId) :
          clueStates[i].state = "PENDING"

\* no two TeamMember rows have the same (teamId, userId)
NoDuplicateMembership ==
    /\ \A m \in BagToSet(members) : CopiesIn(m, members) = 1
    /\ \A a, b \in BagToSet(members) :
          (a.teamId = b.teamId /\ a.userId = b.userId) => a = b

\* C14: after every createTeam (with or without makeCaptain), joinTeam and
\* leaveTeam no two TeamMember rows have the same (teamId, userId); a joinTeam
\* for a membership that exists fails and leaves the memberships unchanged.
C14_MembershipUnique ==
    [][ /\ NoDuplicateMembership'
        /\ (last'.op = "joinTeam" /\ Memberships(last'.teamId, last'.userId) # {}) =>
              /\ ~last'.ok /\ last'.err = "User already joined this team"
              /\ members' = members ]_vars

\* the captain that createTeam enrolled tried to join the team again, while
\* another player is a member too
C14_Witness ==
    /\ last.op = "joinTeam" /\ ~last.ok /\ ~last.isCaptain
    /\ \E m \in BagToSet(members) :
          m.teamId = last.teamId /\ m.userId = last.userId /\ m.isCaptain
    /\ \E m \in BagToSet(members) : m.teamId = last.teamId /\ m.userId # last.userId

\* the rounds of game g
RoundsOfGame(table, g) == {r \in DOMAIN table : table[r].gameId = g}

\* C15: a deleteRound that returns leaves the remaining rounds of the game
\* with the order values 1..N, without gap or duplicate, given in ascending
\* order of the values they had before, whatever those were.
C15_DeleteRoundRenumbers ==
    [][ (last'.op = "deleteRound" /\ last'.ok) =>
          LET g == rounds[last'.roundId].gameId
              rest == RoundsOfGame(rounds', g)
          IN  /\ DOMAIN rounds' = DOMAIN rounds \ {last'.roundId}
              /\ rest = RoundsOfGame(rounds, g) \ {last'.roundId}
              /\ {rounds'[r].order : r \in rest} = 1..Cardinality(rest)
              /\ \A a, b \in rest : rounds'[a].order = rounds'[b].order => a = b
              /\ \A a, b \in rest :
                    rounds[a].order < rounds[b].order => rounds'[a].order < rounds'[b].order
          ]_vars

\* a round was deleted and the two that remain are numbered against the
\* order of their creation
C15_Witness ==
    /\ last.op = "deleteRound" /\ last.ok
    /\ \E a, b \in DOMAIN rounds :
          a < b /\ rounds[a].order = 2 /\ rounds[b].order = 1

\* the game that a roster, board or settings call is made on: Null when the
\* call names no existing game, team or round, or is another operation
TargetGame(call) ==
    CASE call.op \in {"createTeam", "createRound", "updateGameSettings"} ->
            IF call.gameId \in DOMAIN games THEN Some(call.gameId) ELSE Null
      [] call.op = "removeTeam" ->
            IF call.teamId \in DOMAIN teams THEN Some(teams[call.teamId].gameId) ELSE Null
      [] call.op \in {"deleteRound", "updateRoundOrder"} ->
            IF call.roundId \in DOMAIN rounds THEN Some(rounds[call.roundId].gameId)
            ELSE Null
      [] OTHER -> Null

\* C19: once a game's status is no longer LOBBY, every createTeam, removeTeam,
\* createRound, deleteRound, updateRoundOrder and updateGameSettings on that
\* game fails and leaves the store unchanged, and no step changes the game's
\* set of teams, their order values, its rounds, their order values, its
\* title or its teamLimit.
C19_LockedAfterLobby ==
    [][ \A g \in DOMAIN games : games[g].status # "LOBBY" =>
          /\ TargetGame(last') = Some(g) => (~last'.ok /\ UNCHANGED db)
          /\ {t \in DOMAIN teams' : teams'[t].gameId = g} = TeamsOf(g)
          /\ \A t \in TeamsOf(g) : teams'[t].order = teams[t].order
          /\ RoundsOfGame(rounds', g) = RoundsOfGame(rounds, g)
          /\ \A r \in RoundsOfGame(rounds, g) : rounds'[r].order = rounds[r].order
          /\ g \in DOMAIN games'
          /\ games'[g].title = games[g].title
          /\ games'[g].teamLimit = games[g].teamLimit ]_vars

\* the host tried to delete a round of a finished game that has two rounds
\* and a team
C19_Witness ==
    /\ last.op = "deleteRound" /\ ~last.ok
    /\ last.err = "Cannot delete rounds once the game has started"
    /\ last.roundId \in DOMAIN rounds
    /\ games[rounds[last.roundId].gameId].status = "FINISHED"
    /\ Cardinality(DOMAIN rounds) >= 2
    /\ DOMAIN teams # {}

\* C18: selectClue of an existing clue fails, creating and modifying no
\* ClueState, when the clue's game is not IN_PROGRESS, the team does not
\* exist, the team is of another game than the clue, or the actor is not a
\* member of the team; and a ClueState gets a pickedByTeamId (a row created
\* with one, or a row whose pickedByTeamId changes to a team) only in a step
\* taken while its game is IN_PROGRESS.
C18_SelectClueRejects ==
    [][ /\ ( /\ last'.op = "selectClue"
             /\ last'.clueId \in DOMAIN clues
             /\ \/ games[ClueGame(last'.clueId)].status # "IN_PROGRESS"
                \/ last'.teamId \notin DOMAIN teams
                \/ teams[last'.teamId].gameId # ClueGame(last'.clueId)
                \/ Memberships(last'.teamId, last'.actorId) = {} )
           => (~last'.ok /\ clueStates' = clueStates)
        /\ \A i \in DOMAIN clueStates' :
              ( /\ clueStates'[i].pickedByTeamId # Null
                /\ \/ i \notin DOMAIN clueStates
                   \/ clueStates[i].pickedByTeamId # clueStates'[i].pickedByTeamId )
              => games[clueStates'[i].gameId].status = "IN_PROGRESS" ]_vars

\* a member of the team of the second game, which is in progress too, tried
\* to claim the clue of the first game, whose ClueState exists and is free
C18_Witness ==
    /\ last.op = "selectClue" /\ ~last.ok
    /\ last.err = "Team and clue do not belong to the same game"
    /\ Memberships(last.teamId, last.actorId) # {}
    /\ games[teams[last.teamId].gameId].status = "IN_PROGRESS"
    /\ games[ClueGame(last.clueId)].status = "IN_PROGRESS"
    /\ \E i \in RowsOf(clueStates, last.clueId) : clueStates[i].pickedByTeamId = Null

\* C12: every clue has at most one ClueState row, after any sequence and any
\* interleaving of selectClue and resetClueState calls.
C12_OneRowPerClue ==
    \A c \in DOMAIN clues : Cardinality(RowsOf(clueStates, c)) <= 1

\* C16: a selectClue that read the clue's ClueState as absent or AVAILABLE
\* passes the claim check and returns success whatever other calls have
\* written since it read: it creates a row PENDING for its team when it had
\* read none (even if one exists by now), and otherwise sets the row it read
\* to PENDING for its team (even if another team holds it by now).  So two
\* selectClue calls of two teams that both read before either writes both
\* return success, and the row names one of them only, or there are two rows.
C16_StaleClaimSucceeds ==
    [][ \A i \in DOMAIN calls :
          ( /\ calls[i].call.op = "selectClue"
            /\ calls[i].pc = "write" /\ calls'[i].pc # "write"
            /\ (calls[i].read = Null \/ calls[i].read[1].state = "AVAILABLE") )
          => /\ calls'[i].pc = "returned"
             /\ last' = Returned(calls[i].call)
             /\ IF calls[i].read = Null
                THEN \E id \in DOMAIN clueStates' \ DOMAIN clueStates :
                        /\ DOMAIN clueStates' = DOMAIN clueStates \cup {id}
                        /\ clueStates'[id].clueId = calls[i].call.clueId
                        /\ clueStates'[id].state = "PENDING"
                        /\ clueStates'[id].pickedByTeamId = Some(calls[i].call.teamId)
                        /\ \A j \in DOMAIN clueStates : clueStates'[j] = clueStates[j]
                ELSE LET id == calls[i].read[1].id
                     IN  /\ DOMAIN clueStates' = DOMAIN clueStates
                         /\ clueStates'[id].state = "PENDING"
                         /\ clueStates'[id].pickedByTeamId = Some(calls[i].call.teamId)
        ]_vars

\* two teams both read the clue's row as AVAILABLE and both were told they
\* claimed it; the one row names the second writer, not the first
C16_Witness ==
    /\ Len(calls) = 2
    /\ \A i \in 1..2 : /\ calls[i].call.op = "selectClue" /\ calls[i].pc = "returned"
                       /\ calls[i].read # Null
    /\ calls[1].call.teamId # calls[2].call.teamId
    /\ calls[1].read = calls[2].read
    /\ last = Returned(calls[1].call)
    /\ \A r \in RowsOf(clueStates, calls[1].call.clueId) :
          /\ clueStates[r].pickedByTeamId = Some(calls[1].call.teamId)
          /\ clueStates[r].pickedByTeamId # Some(calls[2].call.teamId)
    /\ Cardinality(RowsOf(clueStates, calls[1].call.clueId)) = 1

\* C17: a createTeam that read the game with fewer teams than its teamLimit
\* passes the limit check and creates its team whatever other calls have
\* created since it read, with the order value "teams read + 1".  So two
\* createTeam calls that both read when one slot is left both create a team:
\* the game has more teams than teamLimit and two teams of the same order.
C17_StaleCreateTeamSucceeds ==
    [][ \A i \in DOMAIN calls :
          ( /\ calls[i].call.op = "createTeam"
            /\ calls[i].pc = "write" /\ calls'[i].pc # "write" )
          => LET g == calls[i].call.gameId
             IN  /\ calls[i].read < games[g].teamLimit
                 /\ calls'[i].pc = "returned" /\ last'.ok
                 /\ \E id \in DOMAIN teams' \ DOMAIN teams :
                       /\ DOMAIN teams' = DOMAIN teams \cup {id}
                       /\ teams'[id].gameId = g
                       /\ teams'[id].order = calls[i].read + 1
                       /\ \A t \in DOMAIN teams : teams'[t] = teams[t] ]_vars

\* two calls read the game when it had one team of the two allowed, and both
\* returned: the game has three teams, two of them with order 2
C17_Witness ==
    /\ Len(calls) = 2
    /\ \A i \in 1..2 : /\ calls[i].call.op = "createTeam" /\ calls[i].pc = "returned"
                       /\ calls[i].read = 1
    /\ games[1].teamLimit = 2 /\ games[1].status = "LOBBY"
    /\ Cardinality(TeamsOf(1)) = 3
    /\ \E a, b \in TeamsOf(1) : a # b /\ teams[a].order = 2 /\ teams[b].order = 2

\* C21: adjustScore succeeds exactly when the team and the actor exist and
\* the actor is the host of the team's game or has the role HOST or OPERATOR;
\* on success the team's score changes by exactly delta and no other team's
\* score changes; on failure no score changes.
C21_AdjustScore ==
    [][ last'.op = "adjustScore" =>
          LET t == last'.teamId
              a == last'.actorId
              allowed == /\ t \in DOMAIN teams
                         /\ a \in Users
                         /\ \/ games[teams[t].gameId].hostId = a
                            \/ userRole[a] \in {"HOST", "OPERATOR"}
          IN  /\ last'.ok <=> allowed
              /\ DOMAIN teams' = DOMAIN teams
              /\ last'.ok =>
                    /\ teams'[t].score = teams[t].score + last'.delta
                    /\ \A u \in DOMAIN teams \ {t} : teams'[u].score = teams[u].score
              /\ ~last'.ok => \A u \in DOMAIN teams : teams'[u].score = teams[u].score
        ]_vars

\* the game's host, whose role is PLAYER, took a point from a team at 0; the
\* other team keeps its point
C21_Witness ==
    /\ last.op = "adjustScore" /\ last.ok /\ last.delta = -1
    /\ userRole[last.actorId] = "PLAYER"
    /\ games[teams[last.teamId].gameId].hostId = last.actorId
    /\ teams[last.teamId].score = -1
    /\ \E u \in DOMAIN teams : u # last.teamId /\ teams[u].score = 1

\* the sum of awardedValue over the validated responses among `rs`
RECURSIVE SumAwarded(_)
SumAwarded(rs) ==
    IF rs = {} THEN 0
    ELSE LET r == CHOOSE x \in rs : TRUE
         IN  (IF responses[r].isCorrect # Null THEN responses[r].awardedValue[1] ELSE 0)
                + SumAwarded(rs \ {r})

\* C23: each team's score is the sum of the deltas of its successful
\* adjustScore calls plus the sum of awardedValue over its validated
\* TeamResponse rows; a response counts once, however often it is validated.
C23_ScoreAccounting ==
    \A t \in DOMAIN teams :
        teams[t].score =
            adjusted[t] + SumAwarded({r \in DOMAIN responses : responses[r].teamId = t})

\* C22: a ClueState whose pickedByTeamId is not null names a team that
\* exists and is of the ClueState's game.
C22_PickedTeamExists ==
    \A i \in DOMAIN clueStates :
        clueStates[i].pickedByTeamId # Null =>
            /\ clueStates[i].pickedByTeamId[1] \in DOMAIN teams
            /\ teams[clueStates[i].pickedByTeamId[1]].gameId = clueStates[i].gameId

\* the host tried to remove the team that holds the clue, a team that was
\* created after another had been removed
C22_Witness ==
    /\ last.op = "removeTeam" /\ ~last.ok
    /\ \E i \in DOMAIN clueStates : clueStates[i].pickedByTeamId = Some(last.teamId)
    /\ last.teamId \in DOMAIN teams
    /\ \E t \in 1..last.teamId : t \notin DOMAIN teams

====
